---- MODULE Spec2Model ----
(***************************************************************************)
(* A model of src/sparse.py: the coordinate-format sparse matrix `Sparse`, *)
(* its element-wise merge operations, its segmented-sum dot product and    *)
(* its index selection.                                                     *)
(*                                                                         *)
(* Arrays are sequences.  numpy positions are 0-based and are kept 0-based *)
(* as VALUES; a position p of an array s is read as s[p + 1].              *)
(*                                                                         *)
(* Numbers that the code makes non-integral are kept exact:                *)
(*   - fast_in1d's bins b - .25, b + .25 and its queries q are held in     *)
(*     quarters: 4b - 1, 4b + 1 and 4q;                                     *)
(*   - a matrix holds `row` as numerators over the denominator `rden`      *)
(*     (rden = 1 for integer rows): `ids / n_column` of line 42 is floor   *)
(*     division under Python 2 and true division under Python 3, and the   *)
(*     file supports both (the __future__ import of line 3, the xrange     *)
(*     shim of lines 9-12).  The interpreter is the variable py3.          *)
(*                                                                         *)
(* The arrays a matrix is constructed from are integer arrays.  A result   *)
(* that holds a non-integer array (a true quotient, a boolean) is reported *)
(* with ints = FALSE and is not operated on further.                       *)
(*                                                                         *)
(* An exception is a result of kind "error": "index" is numpy's IndexError *)
(* of a read outside an array, "assertion" a failed assert, "broadcast"    *)
(* numpy's error for arrays whose lengths do not combine,                  *)
(* "index_too_large" the ValueError of line 149 and "zero_size_max" the    *)
(* ValueError np.max raises on an empty array.                             *)
(***************************************************************************)
EXTENDS Integers, Sequences, FiniteSets, TLC

VARIABLES
    a,      \* the matrix the operations are called on (self)
    op,     \* the last operation called
    arg,    \* the arguments it was called with
    res,    \* what it returned or raised
    py3,    \* whether the interpreter is Python 3
    depth   \* how many results have been taken as the next self

vars == <<a, op, arg, res, py3, depth>>

(***************************************************************************)
(* Bounds of the model.                                                    *)
(***************************************************************************)
MaxRow == 2
MaxCol == 2
MaxNnz == 2
MaxIdxLen == 2
MaxBin == 2
MaxBinLen == 3
MaxQueryLen == 2
MaxDepth == 1

\* The values a stored entry may hold (0 is a stored, explicit zero).
DataVals == {0, 1, 2}
\* The elements of a dense vector.
VecVals == {0, 1, 2}

(***************************************************************************)
(* The numeric substrate (numpy), as the code uses it.                     *)
(***************************************************************************)
Range(s) == {s[k] : k \in 1..Len(s)}

Min(S) == CHOOSE x \in S : \A y \in S : x <= y

Max(S) == CHOOSE x \in S : \A y \in S : y <= x

RECURSIVE SortedSeq(_)
\* The elements of a finite set of integers, ascending (np.unique and the
\* set routines return sorted, duplicate-free arrays).
SortedSeq(S) ==
    IF S = {} THEN <<>> ELSE <<Min(S)>> \o SortedSeq(S \ {Min(S)})

\* np.unique
Unique(s) == SortedSeq(Range(s))

\* np.intersect1d
Intersect1d(x, y) == SortedSeq(Range(x) \cap Range(y))

\* np.setdiff1d
Setdiff1d(x, y) == SortedSeq(Range(x) \ Range(y))

\* np.union1d
Union1d(x, y) == SortedSeq(Range(x) \cup Range(y))

\* np.in1d
In1d(x, y) == [k \in 1..Len(x) |-> x[k] \in Range(y)]

\* np.arange (lo, hi)
Arange(lo, hi) == [k \in 1..(IF hi > lo THEN hi - lo ELSE 0) |-> lo + k - 1]

\* np.diff
Diff(s) == [k \in 1..(IF Len(s) > 0 THEN Len(s) - 1 ELSE 0) |-> s[k + 1] - s[k]]

RECURSIVE CumSum(_)
\* np.cumsum
CumSum(s) ==
    IF Len(s) = 0 THEN <<>>
    ELSE LET init == CumSum(SubSeq(s, 1, Len(s) - 1))
         IN  Append(init, (IF Len(init) = 0 THEN 0 ELSE init[Len(init)]) + s[Len(s)])

RECURSIVE Filter(_, _)
\* s[mask] for a boolean mask of the length of s
Filter(s, mask) ==
    IF Len(s) = 0 THEN <<>>
    ELSE LET rest == Filter(SubSeq(s, 1, Len(s) - 1), SubSeq(mask, 1, Len(s) - 1))
         IN  IF mask[Len(s)] THEN Append(rest, s[Len(s)]) ELSE rest

\* ~mask
Not(mask) == [k \in 1..Len(mask) |-> ~mask[k]]

\* Whether s[idx] is defined: every position lies in [-len(s), len(s)).
IndexOk(s, idx) == \A k \in 1..Len(idx) : -Len(s) <= idx[k] /\ idx[k] < Len(s)

\* s[idx] for an array of positions; a negative position counts from the end.
Take(s, idx) ==
    [k \in 1..Len(idx) |-> s[(IF idx[k] < 0 THEN idx[k] + Len(s) ELSE idx[k]) + 1]]

RECURSIVE Put(_, _, _)
\* s[idx] = vals, position by position (a later write wins)
Put(s, idx, vals) ==
    IF Len(idx) = 0 THEN s
    ELSE LET p == IF idx[1] < 0 THEN idx[1] + Len(s) ELSE idx[1]
         IN  Put([s EXCEPT ![p + 1] = vals[1]], Tail(idx), Tail(vals))

RECURSIVE BinSearch(_, _, _, _)
\* The inner loop of np.searchsorted (side = left) between lo and hi.
BinSearch(arr, key, lo, hi) ==
    IF lo >= hi THEN lo
    ELSE LET mid == lo + ((hi - lo) \div 2)
         IN  IF arr[mid + 1] < key THEN BinSearch(arr, key, mid + 1, hi)
             ELSE BinSearch(arr, key, lo, mid)

RECURSIVE SearchLoop(_, _, _, _, _, _)
\* np.searchsorted's loop over the keys: each search starts from the bounds the
\* previous key left (upwards when the keys ascend, else from 0 to one past the
\* previous position).
SearchLoop(arr, keys, k, lo, hi, last) ==
    IF k > Len(keys) THEN <<>>
    ELSE LET key == keys[k]
             lo1 == IF last < key THEN lo ELSE 0
             hi1 == IF last < key THEN Len(arr)
                    ELSE IF hi < Len(arr) THEN hi + 1 ELSE Len(arr)
             p == BinSearch(arr, key, lo1, hi1)
         IN  <<p>> \o SearchLoop(arr, keys, k + 1, p, p, key)

\* np.searchsorted (arr, keys): the 0-based insertion position of each key
SearchSorted(arr, keys) ==
    IF Len(keys) = 0 THEN <<>> ELSE SearchLoop(arr, keys, 1, 0, Len(arr), keys[1])

RECURSIVE SortIdx(_, _)
\* The positions S of ids, ordered by id (ties in position order: within the
\* model's lengths numpy sorts by insertion).
SortIdx(ids, S) ==
    IF S = {} THEN <<>>
    ELSE LET m == CHOOSE i \in S :
                    \A j \in S : ids[i] < ids[j] \/ (ids[i] = ids[j] /\ i <= j)
         IN  <<m>> \o SortIdx(ids, S \ {m})

\* np.argsort, as 1-based positions
ArgSort(ids) == SortIdx(ids, 1..Len(ids))

Permute(s, order) == [k \in 1..Len(order) |-> s[order[k]]]

(***************************************************************************)
(* Sparse: construction and the linear id.                                 *)
(***************************************************************************)
\* _ij_to_id, on row numerators over rden: the numerators of the ids over rden
IjToId(row, column, rden, n_column) ==
    [k \in 1..Len(row) |-> row[k] * n_column + column[k] * rden]

\* _id_to_ij: (ids / n_column, ids % n_column).  Under Python 3 the quotient is
\* the exact fraction ids / n_column.
IdToIj(ids, n_column, p3) ==
    IF p3
    THEN [row |-> ids,
          column |-> [k \in 1..Len(ids) |-> ids[k] % n_column],
          rden |-> n_column]
    ELSE [row |-> [k \in 1..Len(ids) |-> ids[k] \div n_column],
          column |-> [k \in 1..Len(ids) |-> ids[k] % n_column],
          rden |-> 1]

\* Sparse.__init__
Construct(data, row, column, rden, n_row, n_column, check) ==
    LET ids == IjToId(row, column, rden, n_column)
        order == IF check THEN ArgSort(ids) ELSE [k \in 1..Len(ids) |-> k]
    IN  [ids |-> Permute(ids, order), row |-> Permute(row, order),
         column |-> Permute(column, order), rden |-> rden, n_column |-> n_column,
         data |-> Permute(data, order), n_row |-> n_row]

\* The result of an operation: a matrix (ints: every array of it has an integer
\* dtype), a dense vector, an index array, a boolean array, or the exception raised.
MatrixRes(m, ints) == [m |-> m, ints |-> ints, kind |-> "matrix"]

ErrorRes(e) == [kind |-> "error", error |-> e]

(***************************************************************************)
(* Index selection.                                                        *)
(***************************************************************************)
\* The array _normalize_indices works on after lines 142-147.  An index is a
\* full-range slice, a boolean mask or an integer array.
IndexArray(x, xmax) ==
    CASE x.kind = "slice" -> Arange(0, xmax)
      [] x.kind = "mask" -> Filter(Arange(0, xmax), x.val)
      [] OTHER -> x.val

\* _normalize_indices.  np.max of an empty array raises numpy's own ValueError.
NormalizeIndices(x, xmax) ==
    LET arr == IndexArray(x, xmax)
    IN  IF Len(arr) = 0 THEN ErrorRes("zero_size_max")
        ELSE IF ~(Max(Range(arr)) < xmax)
        THEN [kind |-> "error", error |-> "index_too_large",
              index |-> Min({arr[k] : k \in {n \in 1..Len(arr) : arr[n] >= xmax}}),
              axis |-> xmax]
        ELSE [x |-> arr, kind |-> "indices"]

\* Bins without the lower margin: [a_bins, a_bins + .25].
BinsFromBin(a_bins) ==
    [k \in 1..(2 * Len(a_bins)) |->
        IF k % 2 = 1 THEN 4 * a_bins[(k + 1) \div 2] ELSE 4 * a_bins[k \div 2] + 1]

\* np.transpose ([a_bins - .25, a_bins + .25]).ravel (), in quarters
Bins(a_bins) ==
    [k \in 1..(2 * Len(a_bins)) |->
        IF k % 2 = 1 THEN 4 * a_bins[(k + 1) \div 2] - 1 ELSE 4 * a_bins[k \div 2] + 1]

\* The parity test of line 205.
OddPosition(p) == p % 2 > 0

\* fast_in1d
FastIn1d(a_test, a_bins) ==
    LET pos == SearchSorted(Bins(a_bins), [k \in 1..Len(a_test) |-> 4 * a_test[k]])
    IN  [k \in 1..Len(a_test) |-> OddPosition(pos[k])]

\* assert np.all (np.diff (j) > 0)
Ascending(x) == \A k \in 1..Len(Diff(x)) : Diff(x)[k] > 0

\* Rows left as they are in A, not compacted.
RemapRowsSkipped(self_row_idx, i) == self_row_idx

\* The row remap of lines 172-173.
RemapRows(self_row_idx, i) ==
    LET relevant_rows == Unique(self_row_idx \o Filter(i, Not(FastIn1d(i, self_row_idx))))
    IN  SearchSorted(relevant_rows, self_row_idx)

\* _get_rows
GetRows(m, i) ==
    LET n == NormalizeIndices(i, m.n_row)
    IN  IF n.kind = "error" THEN n
        ELSE IF ~Ascending(n.x) THEN ErrorRes("assertion")
        ELSE LET idx == FastIn1d(m.row, n.x)
                 data == Filter(m.data, idx)
                 column == Filter(m.column, idx)
                 self_row_idx == Filter(m.row, idx)
                 row == RemapRows(self_row_idx, n.x)
             IN  MatrixRes(Construct(data, row, column, 1, Len(n.x), m.n_column, FALSE),
                           TRUE)

\* The shape _get_columns gives its result (line 162).
ColumnsShape(m, j) == <<Len(j), m.n_column>>

\* _get_columns
GetColumns(m, j) ==
    LET n == NormalizeIndices(j, m.n_column)
    IN  IF n.kind = "error" THEN n
        ELSE IF ~Ascending(n.x) THEN ErrorRes("assertion")
        ELSE LET idx == In1d([k \in 1..Len(m.ids) |-> m.ids[k] % m.n_column], n.x)
                 data == Filter(m.data, idx)
                 row == Filter(m.row, idx)
                 self_col_idx == Filter(m.column, idx)
                 relevant_columns ==
                     Unique(self_col_idx \o Filter(n.x, Not(In1d(n.x, self_col_idx))))
                 column == SearchSorted(relevant_columns, self_col_idx)
                 shape == ColumnsShape(m, n.x)
             IN  MatrixRes(Construct(data, row, column, 1, shape[1], shape[2], TRUE),
                           TRUE)

\* Whether the two index arrays of line 178 combine: equal lengths, or one of
\* them a single element that numpy broadcasts.
Broadcastable(i, j) == Len(i) = Len(j) \/ Len(i) = 1 \/ Len(j) = 1

\* self._ij_to_id (i, j) of line 178 on two index arrays, element by element
PairIds(i, j, n_column) ==
    IF Len(i) = Len(j) THEN [k \in 1..Len(i) |-> i[k] * n_column + j[k]]
    ELSE IF Len(i) = 1 THEN [k \in 1..Len(j) |-> i[1] * n_column + j[k]]
    ELSE [k \in 1..Len(i) |-> i[k] * n_column + j[1]]

\* _get_elements
GetElements(m, i, j, p3) ==
    LET ni == NormalizeIndices(i, m.n_row)
        nj == NormalizeIndices(j, m.n_column)
    IN  IF ni.kind = "error" THEN ni
        ELSE IF nj.kind = "error" THEN nj
        ELSE LET pairs == PairIds(ni.x, nj.x, m.n_column)
             IN  IF ~Broadcastable(ni.x, nj.x) THEN ErrorRes("broadcast")
                 ELSE LET ids == Intersect1d(pairs, m.ids)
                          idx == SearchSorted(m.ids, ids)
                          data == Take(m.data, idx)
                          ij == IdToIj(ids, m.n_column, p3)
                      IN  MatrixRes(Construct(data, ij.row, ij.column, ij.rden,
                                              m.n_row, m.n_column, TRUE), ~p3)

\* __getitem__ on a pair (i, j)
GetItem(m, i, j, p3) ==
    IF i.kind = "slice" THEN GetColumns(m, j)
    ELSE IF j.kind = "slice" THEN GetRows(m, i)
    ELSE GetElements(m, i, j, p3)

(***************************************************************************)
(* Element-wise operations.                                                *)
(***************************************************************************)
\* The comparison functions of lines 53-66, on one stored value.
Compare(cmp, x, value) ==
    CASE cmp = "ge" -> x >= value
      [] cmp = "gt" -> x > value
      [] cmp = "le" -> x <= value
      [] cmp = "lt" -> x < value
      [] cmp = "eq" -> x = value
      [] OTHER -> x # value

\* broadcast1d, with a comparison as f: the result's data are booleans
Broadcast1d(m, cmp, value) ==
    MatrixRes(Construct([k \in 1..Len(m.data) |-> Compare(cmp, m.data[k], value)],
                        m.row, m.column, 1, m.n_row, m.n_column, TRUE), FALSE)

\* numpy's integer floor division; a zero divisor gives 0 (with a warning)
FloorDiv(x, y) ==
    IF y = 0 THEN 0 ELSE IF y > 0 THEN x \div y ELSE (0 - x) \div (0 - y)

\* The function f each derived operation hands to broadcast2d (lines 103-113), on
\* one pair of values.  np.divide is floor division of integers under Python 2
\* and true division under Python 3, where the quotient is kept as <<x, y>>.
F(f, x, y, p3) ==
    CASE f = "add" -> x + y
      [] f = "subtract" -> x - y
      [] f = "multiply" -> x * y
      [] OTHER -> IF p3 THEN <<x, y>> ELSE FloorDiv(x, y)

\* f on two arrays of one length
Map2(f, x, y, p3) == [k \in 1..Len(x) |-> F(f, x[k], y[k], p3)]

\* add and subtract pass fills (union mode); multiply and divide pass none.
Intersect(f) == f \in {"multiply", "divide"}

\* afill: the identity for add and for subtract
AFill(f, x) == x

\* bfill: the identity for add, the negation for subtract
BFill(f, x) == IF f = "subtract" THEN [k \in 1..Len(x) |-> 0 - x[k]] ELSE x

\* The values of the shared coordinates (lines 77-82).
BothData(m1, m2, f, p3) ==
    LET both_ids == Intersect1d(m1.ids, m2.ids)
        a_ids == Intersect1d(m1.ids, both_ids)
        b_ids == Intersect1d(m2.ids, both_ids)
        i1 == SearchSorted(both_ids, a_ids)
        i2 == SearchSorted(both_ids, b_ids)
    IN  Map2(f, Take(m1.data, i1), Take(m2.data, i2), p3)

\* The positions line 98 reads its values at, and the array it reads them from.
OnlyBValues(m1, m2, f, i2_in) == AFill(f, Take(m1.data, i2_in))

\* Whether line 98's read is inside the array it reads.
OnlyBIndexOk(m1, m2, i2_in) == IndexOk(m1.data, i2_in)

\* broadcast2d
Broadcast2d(m1, m2, f, p3) ==
    IF <<m1.n_row, m1.n_column>> # <<m2.n_row, m2.n_column>> THEN ErrorRes("assertion")
    ELSE IF Len(m1.data) = Len(m2.data) /\ m1.ids = m2.ids
    THEN MatrixRes(Construct(Map2(f, m1.data, m2.data, p3), m1.row, m1.column, 1,
                             m1.n_row, m1.n_column, TRUE),
                   ~(f = "divide" /\ p3))
    ELSE LET both_ids == Intersect1d(m1.ids, m2.ids)
             data == BothData(m1, m2, f, p3)
         IN  IF Intersect(f)
             THEN LET ij == IdToIj(both_ids, m1.n_column, p3)
                  IN  MatrixRes(Construct(data, ij.row, ij.column, ij.rden,
                                          m1.n_row, m1.n_column, TRUE), ~p3)
             ELSE LET only_a_ids == Setdiff1d(m1.ids, both_ids)
                      only_b_ids == Setdiff1d(m2.ids, both_ids)
                      all_ids == Union1d(m1.ids, m2.ids)
                      empty == [k \in 1..Len(all_ids) |-> 0]
                      i_both == SearchSorted(all_ids, both_ids)
                      i1_in == SearchSorted(m1.ids, only_a_ids)
                      i2_in == SearchSorted(m2.ids, only_b_ids)
                      i1_out == SearchSorted(all_ids, only_a_ids)
                      i2_out == SearchSorted(all_ids, only_b_ids)
                      ij == IdToIj(all_ids, m1.n_column, p3)
                  IN  IF ~OnlyBIndexOk(m1, m2, i2_in) THEN ErrorRes("index")
                      ELSE LET d1 == Put(empty, i_both, data)
                               d2 == Put(d1, i1_out, AFill(f, Take(m1.data, i1_in)))
                               d3 == Put(d2, i2_out, OnlyBValues(m1, m2, f, i2_in))
                           IN  MatrixRes(Construct(d3, ij.row, ij.column, ij.rden,
                                                   m1.n_row, m1.n_column, TRUE), ~p3)

(***************************************************************************)
(* Dot product.                                                            *)
(***************************************************************************)
\* np.where (np.diff (self.row) >= 1)[0]
RowChanges(row) ==
    LET d == Diff(row)
    IN  Filter(Arange(0, Len(d)), [k \in 1..Len(d) |-> d[k] >= 1])

\* row_bounds of lines 119 and 130
RowBounds(row) == <<0>> \o RowChanges(row) \o <<Len(row) - 1>>

\* cumsum of lines 120 and 131
PrefixSums(product) == <<0>> \o SubSeq(CumSum(product), 2, Len(product))

\* Lines 117-122 and 128-133, shared by dot_sparse and dot_py: the per-row sums and
\* their rows, or the IndexError of a read outside an array.
SegmentedSums(m, v) ==
    IF ~IndexOk(v, m.column) THEN ErrorRes("index")
    ELSE LET product == [k \in 1..Len(m.data) |-> m.data[k] * Take(v, m.column)[k]]
             row_bounds == RowBounds(m.row)
             cumsum == PrefixSums(product)
         IN  IF ~IndexOk(cumsum, row_bounds) \/ ~IndexOk(m.row, Tail(row_bounds))
             THEN ErrorRes("index")
             ELSE [row |-> Take(m.row, Tail(row_bounds)), kind |-> "sums",
                   values |-> Diff(Take(cumsum, row_bounds))]

\* dot_sparse
DotSparse(m, v) ==
    LET s == SegmentedSums(m, v)
    IN  IF s.kind = "error" THEN s
        ELSE MatrixRes(Construct(s.values, s.row, [k \in 1..Len(s.values) |-> 0], 1,
                                 m.n_row, 1, TRUE), TRUE)

\* dot_py
DotPy(m, v) ==
    LET s == SegmentedSums(m, v)
    IN  IF s.kind = "error" THEN s
        ELSE IF ~IndexOk([k \in 1..m.n_row |-> 0], s.row) THEN ErrorRes("index")
        ELSE [kind |-> "vector", v |-> Put([k \in 1..m.n_row |-> 0], s.row, s.values)]

(***************************************************************************)
(* The inputs.                                                             *)
(***************************************************************************)
\* The sequences over S of a length in lens.
SeqsOf(S, lens) == UNION {[1..n -> S] : n \in lens}

\* A matrix built, with validation, from the duplicate-free triplet that stores
\* d[id] at each linear id of the domain of d, handed over in descending order.
FromTriplet(d, n_row, n_column) ==
    LET asc == SortedSeq(DOMAIN d)
        ids == [k \in 1..Len(asc) |-> asc[Len(asc) + 1 - k]]
    IN  Construct([k \in 1..Len(ids) |-> d[ids[k]]],
                  [k \in 1..Len(ids) |-> ids[k] \div n_column],
                  [k \in 1..Len(ids) |-> ids[k] % n_column],
                  1, n_row, n_column, TRUE)

\* The valid matrices of one shape with at most MaxNnz stored entries.
Matrices(n_row, n_column) ==
    {FromTriplet(d, n_row, n_column) :
        d \in UNION {[S -> DataVals] :
                S \in {T \in SUBSET (0..(n_row * n_column - 1)) : Cardinality(T) <= MaxNnz}}}

AllMatrices == UNION {Matrices(r, c) : r \in 1..MaxRow, c \in 1..MaxCol}

FullSlice == [kind |-> "slice", val |-> <<>>]

Masks(n) == {[kind |-> "mask", val |-> m] : m \in [1..n -> BOOLEAN]}

\* Non-empty integer index arrays with elements from lo to n, for an axis of
\* length n: n itself is past the axis.
IntArrays(lo, n) == {[kind |-> "ints", val |-> x] : x \in SeqsOf(lo..n, 1..MaxIdxLen)}

\* The indices the selections are called with.
Indices(n) == Masks(n) \cup IntArrays(0, n)

\* The indices _normalize_indices is called with: negative elements too.
AnyIndices(n) == Masks(n) \cup IntArrays(-1, n) \cup {FullSlice}

\* Ascending bins from 0 to n (repeats allowed) and arbitrary queries, one below
\* and one above the bins included, for fast_in1d.
BinArrays(n) ==
    {x \in SeqsOf(0..n, 0..MaxBinLen) : \A k \in 1..(Len(x) - 1) : x[k] <= x[k + 1]}

QueryArrays(n) == SeqsOf(-1..(n + 1), 0..MaxQueryLen)

NoRes == [kind |-> "none"]

(***************************************************************************)
(* The state machine: a matrix is constructed and an operation is called   *)
(* on it, which leaves the matrix as it is and yields a result; the result *)
(* may become the matrix of the next call.                                 *)
(***************************************************************************)
Init ==
    /\ a \in AllMatrices
    /\ op = "init"
    /\ arg = <<>>
    /\ res = NoRes
    /\ py3 \in BOOLEAN
    /\ depth = 0

Call(name, args, result) ==
    /\ res = NoRes
    /\ op' = name
    /\ arg' = args
    /\ res' = result
    /\ UNCHANGED <<a, py3, depth>>

\* The second operand of a binary operation: any valid matrix of the shape of a.
Operands == {m \in AllMatrices : m.n_row = a.n_row /\ m.n_column = a.n_column}

Add == \E m \in Operands : Call("add", [b |-> m], Broadcast2d(a, m, "add", py3))

Subtract ==
    \E m \in Operands : Call("subtract", [b |-> m], Broadcast2d(a, m, "subtract", py3))

Multiply ==
    \E m \in Operands : Call("multiply", [b |-> m], Broadcast2d(a, m, "multiply", py3))

Divide ==
    \E m \in Operands : Call("divide", [b |-> m], Broadcast2d(a, m, "divide", py3))

Comparison ==
    \E cmp \in {"ge", "gt", "le", "lt", "eq", "ne"}, value \in DataVals :
        Call("compare", [cmp |-> cmp, value |-> value], Broadcast1d(a, cmp, value))

Vectors == [1..a.n_column -> VecVals]

DotSparseCall == \E v \in Vectors : Call("dot_sparse", [v |-> v], DotSparse(a, v))

DotPyCall == \E v \in Vectors : Call("dot_py", [v |-> v], DotPy(a, v))

\* A[:, j]
SelectColumns ==
    \E j \in Indices(a.n_column) \cup {FullSlice} :
        Call("get_columns", [i |-> FullSlice, j |-> j], GetItem(a, FullSlice, j, py3))

\* A[i, :] and A[i]
SelectRows ==
    \E i \in Indices(a.n_row) :
        Call("get_rows", [i |-> i, j |-> FullSlice], GetItem(a, i, FullSlice, py3))

\* A[i, j]
SelectElements ==
    \E i \in Indices(a.n_row), j \in Indices(a.n_column) :
        Call("get_elements", [i |-> i, j |-> j], GetItem(a, i, j, py3))

\* _normalize_indices on one axis of a
Normalize ==
    \E xmax \in {a.n_row, a.n_column} :
        \E x \in AnyIndices(xmax) :
            Call("normalize", [x |-> x, xmax |-> xmax], NormalizeIndices(x, xmax))

Membership ==
    \E q \in QueryArrays(MaxBin), bins \in BinArrays(MaxBin) :
        Call("fast_in1d", [a_bins |-> bins, a_test |-> q],
             [kind |-> "bools", v |-> FastIn1d(q, bins)])

\* A result whose arrays are all of an integer dtype becomes the matrix the next
\* operation is called on.
Reuse ==
    /\ res.kind = "matrix"
    /\ res.ints
    /\ depth < MaxDepth
    /\ a' = res.m
    /\ depth' = depth + 1
    /\ op' = "reuse"
    /\ arg' = <<>>
    /\ res' = NoRes
    /\ UNCHANGED py3

Next ==
    \/ Add
    \/ Subtract
    \/ Multiply
    \/ Divide
    \/ Comparison
    \/ DotSparseCall
    \/ SelectColumns
    \/ SelectRows
    \/ SelectElements
    \/ Reuse

Spec == Init /\ [][Next]_vars

NextBinary == Add \/ Subtract \/ Multiply \/ Divide

SpecBinary == Init /\ [][NextBinary]_vars

SpecDot == Init /\ [][DotPyCall]_vars

SpecColumns == Init /\ [][SelectColumns]_vars

SpecRows == Init /\ [][SelectRows]_vars

SpecElements == Init /\ [][SelectElements]_vars

SpecNormalize == Init /\ [][Normalize]_vars

\* fast_in1d is a static method: the matrix plays no part, and is the empty one.
InitMembership ==
    /\ a = FromTriplet(<<>>, 1, 1)
    /\ op = "init"
    /\ arg = <<>>
    /\ res = NoRes
    /\ py3 \in BOOLEAN
    /\ depth = 0

SpecMembership == InitMembership /\ [][Membership]_vars

(***************************************************************************)
(* What the claims speak of.                                               *)
(***************************************************************************)
\* The stored entries <<row, column, value>> of a matrix with integer rows.
Entries(m) == {<<m.row[k], m.column[k], m.data[k]>> : k \in 1..Len(m.data)}

\* The stored coordinates of a matrix with integer rows.
Coordinates(m) == {<<m.row[k], m.column[k]>> : k \in 1..Len(m.data)}

\* Entry k of m is the entry e: its row is the integer e[1] (row[k] / rden).
IsEntry(m, k, e) ==
    m.row[k] = e[1] * m.rden /\ m.column[k] = e[2] /\ m.data[k] = e[3]

\* m stores the entries E (one per coordinate), and nothing else.
StoresExactly(m, E) ==
    /\ Len(m.data) = Cardinality(E)
    /\ Len(m.row) = Len(m.data)
    /\ Len(m.column) = Len(m.data)
    /\ \A e \in E : \E k \in 1..Len(m.data) : IsEntry(m, k, e)
    /\ \A k \in 1..Len(m.data) : \E e \in E : IsEntry(m, k, e)

SameShape(m1, m2) == m1.n_row = m2.n_row /\ m1.n_column = m2.n_column

\* The value of m at a coordinate, an unstored coordinate being 0.
ValueAt(m, r, c) ==
    LET K == {k \in 1..Len(m.data) : m.row[k] = r * m.rden /\ m.column[k] = c}
    IN  IF K = {} THEN 0 ELSE m.data[CHOOSE k \in K : TRUE]

\* The linear ids of m, recomputed from its rows and columns, ascend strictly.
IdsAscend(m) ==
    \A k \in 1..(Len(m.row) - 1) :
        m.row[k] * m.n_column + m.column[k] * m.rden
            < m.row[k + 1] * m.n_column + m.column[k + 1] * m.rden

\* The representation invariants of a matrix relative to its own shape.
Representation(m) ==
    /\ Len(m.data) = Len(m.row)
    /\ Len(m.row) = Len(m.column)
    /\ IdsAscend(m)
    /\ \A k \in 1..Len(m.row) :
          /\ m.row[k] % m.rden = 0
          /\ 0 <= m.row[k] /\ m.row[k] < m.n_row * m.rden
          /\ 0 <= m.column[k] /\ m.column[k] < m.n_column

RECURSIVE SumSeq(_)
SumSeq(s) == IF Len(s) = 0 THEN 0 ELSE s[1] + SumSeq(Tail(s))

\* The dot product of row r of m with the dense vector v.
RowDot(m, v, r) ==
    SumSeq([k \in 1..Len(m.data) |->
               IF m.row[k] = r THEN m.data[k] * v[m.column[k] + 1] ELSE 0])

\* An integer index array within an axis of length n.
InAxis(x, n) == x.kind = "ints" /\ \A k \in 1..Len(x.val) : 0 <= x.val[k] /\ x.val[k] < n

StrictlyAscending(x) == \A k \in 1..(Len(x) - 1) : x[k] < x[k + 1]

\* The 0-based position of r in the array x.
PositionIn(x, r) == (CHOOSE k \in 1..Len(x) : x[k] = r) - 1

(***************************************************************************)
(* The claims.  C1, C2, C4 and C8 are stated for the interpreter whose `/`  *)
(* is floor division, where the coordinates of a merged result are         *)
(* integers: what they say fails there already.                            *)
(***************************************************************************)
\* C1: subtract(A, B) stores exactly the union of the coordinates of A and B,
\* with A's value minus B's where both store the coordinate, A's value where only
\* A does, and the negation of B's value where only B does.
C1_SubtractUnion ==
    (op = "subtract" /\ ~py3) =>
        /\ res.kind = "matrix"
        /\ SameShape(res.m, a)
        /\ StoresExactly(res.m,
              {<<c[1], c[2], ValueAt(a, c[1], c[2]) - ValueAt(arg.b, c[1], c[2])>> :
                  c \in Coordinates(a) \cup Coordinates(arg.b)})

\* C2: multiply(A, B) stores exactly the coordinates stored in both A and B, each
\* with the product of A's and B's values at that coordinate.
C2_MultiplyIntersection ==
    (op = "multiply" /\ ~py3) =>
        /\ res.kind = "matrix"
        /\ SameShape(res.m, a)
        /\ StoresExactly(res.m,
              {<<c[1], c[2], ValueAt(a, c[1], c[2]) * ValueAt(arg.b, c[1], c[2])>> :
                  c \in Coordinates(a) \cap Coordinates(arg.b)})

\* C3: dot_py(A, v) returns a vector of length n_row whose element r is the sum
\* of value[k] * v[column[k]] over the stored entries of row r (0 for a row that
\* stores nothing), for every valid A, the empty one included.
C3_DotPyRowSums ==
    op = "dot_py" =>
        /\ res.kind = "vector"
        /\ Len(res.v) = a.n_row
        /\ \A r \in 0..(a.n_row - 1) : res.v[r + 1] = RowDot(a, arg.v, r)

\* C4: every matrix the core operations produce, from validated matrices on,
\* satisfies the representation invariants relative to its own shape: arrays of
\* one length, strictly ascending ids, rows and columns inside the shape.
C4_RepresentationKept ==
    (res.kind = "matrix" /\ ~py3) => Representation(res.m)

\* C5: for a non-empty, strictly ascending, in-range integer array i, _get_rows(i)
\* returns a matrix of shape (len(i), n_column) that stores exactly the entries of
\* A whose row is in i, with value and column unchanged and the row replaced by its
\* position in i; and its ids ascend strictly although it is built unsorted.
C5_RowSelection ==
    (op = "get_rows" /\ InAxis(arg.i, a.n_row) /\ StrictlyAscending(arg.i.val)) =>
        /\ res.kind = "matrix"
        /\ res.m.n_row = Len(arg.i.val)
        /\ res.m.n_column = a.n_column
        /\ StoresExactly(res.m,
              {<<PositionIn(arg.i.val, e[1]), e[2], e[3]>> :
                  e \in {x \in Entries(a) : x[1] \in Range(arg.i.val)}})
        /\ IdsAscend(res.m)

\* C5's case: a row selection that drops a stored entry and moves a kept one to
\* another row.
C5_Witness ==
    /\ op = "get_rows"
    /\ InAxis(arg.i, a.n_row)
    /\ StrictlyAscending(arg.i.val)
    /\ res.kind = "matrix"
    /\ \E e \in Entries(a) : e[1] \notin Range(arg.i.val)
    /\ \E e \in Entries(a) :
          e[1] \in Range(arg.i.val) /\ PositionIn(arg.i.val, e[1]) # e[1]

\* C6: selecting all columns, j = [0 .. n_column - 1], returns a matrix equal to
\* A: the same shape, coordinates and values, whether A is square or not.
C6_AllColumnsIsIdentity ==
    (op = "get_columns" /\ arg.j.kind = "ints" /\ arg.j.val = Arange(0, a.n_column)) =>
        /\ res.kind = "matrix"
        /\ SameShape(res.m, a)
        /\ StoresExactly(res.m, Entries(a))

\* C7: for equal-length in-range integer arrays i, j, _get_elements(i, j) returns a
\* matrix of A's shape that stores exactly the entries of A at a paired coordinate
\* (i[k], j[k]), each with A's value and its original row and column.
C7_PairedSelection ==
    (/\ op = "get_elements"
     /\ InAxis(arg.i, a.n_row)
     /\ InAxis(arg.j, a.n_column)
     /\ Len(arg.i.val) = Len(arg.j.val)) =>
        /\ res.kind = "matrix"
        /\ SameShape(res.m, a)
        /\ StoresExactly(res.m,
              {e \in Entries(a) :
                  \E k \in 1..Len(arg.i.val) : e[1] = arg.i.val[k] /\ e[2] = arg.j.val[k]})

\* C8: add(A, Z) equals A entrywise (an unstored coordinate counting as 0) for
\* every Z of A's shape whose stored values are all zero, wherever Z stores them.
C8_AddZeroIsIdentity ==
    (op = "add" /\ ~py3 /\ \A k \in 1..Len(arg.b.data) : arg.b.data[k] = 0) =>
        /\ res.kind = "matrix"
        /\ SameShape(res.m, a)
        /\ \A r \in 0..(a.n_row - 1), c \in 0..(a.n_column - 1) :
              ValueAt(res.m, r, c) = ValueAt(a, r, c)

\* C9: for ascending integer bins, repeats allowed, fast_in1d(queries, bins) is
\* true at position k exactly when queries[k] equals some element of bins.
C9_MembershipExact ==
    op = "fast_in1d" =>
        /\ Len(res.v) = Len(arg.a_test)
        /\ \A k \in 1..Len(arg.a_test) :
              res.v[k] <=> (\E n \in 1..Len(arg.a_bins) : arg.a_bins[n] = arg.a_test[k])

\* C9's case: bins that repeat a value, and queries of which one is found and one
\* is not.
C9_Witness ==
    /\ op = "fast_in1d"
    /\ \E n \in 1..(Len(arg.a_bins) - 1) : arg.a_bins[n] = arg.a_bins[n + 1]
    /\ \E k \in 1..Len(res.v) : res.v[k]
    /\ \E k \in 1..Len(res.v) : ~res.v[k]

\* C10: _normalize_indices either fails with the out-of-range error, naming the
\* smallest element >= axis_max and axis_max, or returns an array whose elements
\* all lie in [0, axis_max).
C10_NormalizeValid ==
    op = "normalize" =>
        \/ /\ res.kind = "error"
           /\ res.error = "index_too_large"
           /\ res.axis = arg.xmax
           /\ arg.x.kind = "ints"
           /\ res.index \in Range(arg.x.val)
           /\ res.index >= arg.xmax
           /\ \A k \in 1..Len(arg.x.val) :
                 arg.x.val[k] >= arg.xmax => res.index <= arg.x.val[k]
        \/ /\ res.kind = "indices"
           /\ \A k \in 1..Len(res.x) : 0 <= res.x[k] /\ res.x[k] < arg.xmax

====
